---------------------------- MODULE Spec2Model ----------------------------
(***************************************************************************)
(* A model of src/pages/MessagesPage.tsx: the conversation list a provider *)
(* sees, derived from the booking records in localStorage and refreshed by *)
(* the effect of lines 41-155 (initial load, 10 s interval, 'storage' and  *)
(* 'mindcare-data-updated' events), and the message composer of lines      *)
(* 177-184.                                                                *)
(*                                                                         *)
(* Time is counted in hours since the epoch.  A missing field of a record  *)
(* is the value Absent (JavaScript's undefined); a missing createdAt is    *)
(* the empty sequence and a present one a one-element sequence.  The hook  *)
(* named useEffect at line 41 is read as React's useEffect (the file       *)
(* imports only useState at line 1).  Patient display names and e-mail     *)
(* addresses (lines 92, 121, 122) are not modelled.                        *)
(***************************************************************************)
EXTENDS Integers, Sequences, FiniteSets

VARIABLES
    user,                 \* useAuth().user of the latest render
    bookingsRaw,          \* localStorage['mindcare_bookings']
    usersRaw,             \* localStorage['mindcare_registered_users']
    now,                  \* the wall clock, in hours
    conversations,        \* useState<Conversation[]>
    selectedConversation, \* useState<string | null>
    messageText,          \* useState('')
    searchTerm,           \* useState('')
    phase,                \* "rendered" (effect not yet run), "active", "unmounted"
    effect,               \* what the cleanup closure of the latest effect run holds
    timers,               \* the intervals the browser still fires
    storageListeners,     \* listeners registered on window for 'storage'
    updatedListeners,     \* listeners registered on window for 'mindcare-data-updated'
    shownIds,             \* ids of the conversations of the committed render
    lastOp                \* the operation that produced this state

vars == <<user, bookingsRaw, usersRaw, now, conversations, selectedConversation,
          messageText, searchTerm, phase, effect, timers, storageListeners,
          updatedListeners, shownIds, lastOp>>

----------------------------------------------------------------------------
(* Bounds of the model *)

MaxBookings == 3
MaxLatest == 2
MaxPresence == 2
MaxNow == 26
MaxClock == 1
MaxHandles == 2

(* Numbers of the program, in hours *)

OnlineHours == 2
AwayHours == 24
Seed1Hours == 4
Seed2Hours == 3
Seed3Hours == 2

----------------------------------------------------------------------------
(* Values *)

Absent == "undefined"
NoSelection == "null"

\* user === null behaves as a user without id and name: every read is user?.x
NoUser == [id |-> Absent, name |-> Absent]
DrA == [id |-> "t1", name |-> "Dr A"]
DrB == [id |-> "t2", name |-> "Dr B"]

NullRecord == [null |-> TRUE]
IsNull(b) == "null" \in DOMAIN b

Booking(p, tn, tid, st, ca, d) ==
    [patientId |-> p, therapistName |-> tn, therapistId |-> tid,
     status |-> st, createdAt |-> ca, date |-> d]

Missing == [kind |-> "missing", items |-> <<>>]
Unparsable == [kind |-> "unparsable", items |-> <<>>]
NonList == [kind |-> "nonlist", items |-> <<>>]
List(s) == [kind |-> "list", items |-> s]

SeqsUpTo(S, n) == UNION {[1..k -> S] : k \in 0..n}

----------------------------------------------------------------------------
(* loadConversations, lines 43-135 *)

\* JSON.parse(localStorage.getItem(key) || '[]')
ReadStore(raw) == IF raw.kind = "missing" THEN List(<<>>) ELSE raw

MatchesProvider(b, u) ==
    b.therapistName = u.name \/ b.therapistId = u.id

TherapistBookings(items, u) ==
    SelectSeq(items, LAMBDA b : MatchesProvider(b, u))

\* what makes lines 44-57 throw before setConversations is reached
LoadThrows(braw, uraw, u) ==
    LET b == ReadStore(braw)
        us == ReadStore(uraw)
    IN  \/ b.kind = "unparsable"
        \/ us.kind = "unparsable"
        \/ b.kind = "nonlist"
        \/ \E i \in 1..Len(b.items) : IsNull(b.items[i])
        \/ /\ us.kind = "nonlist"
           /\ \A i \in 1..Len(b.items) : ~IsNull(b.items[i])
           /\ TherapistBookings(b.items, u) # <<>>

\* new Date(b.createdAt || b.date).getTime()
ReferenceTime(b) == IF b.createdAt # <<>> THEN b.createdAt[1] ELSE b.date

\* the comparator with its operands exchanged: the oldest booking first
CompareAscending(a, b) == ReferenceTime(a) - ReferenceTime(b)

\* (a, b) => time(b) - time(a): the latest booking first
Compare(a, b) == ReferenceTime(b) - ReferenceTime(a)

\* Array.prototype.sort is stable: an element goes after those it does not precede
RECURSIVE InsertSorted(_, _)
InsertSorted(x, s) ==
    IF s = <<>> THEN <<x>>
    ELSE IF Compare(Head(s), x) <= 0
         THEN <<Head(s)>> \o InsertSorted(x, Tail(s))
         ELSE <<x>> \o s

RECURSIVE Sort(_)
Sort(s) ==
    IF s = <<>> THEN <<>>
    ELSE InsertSorted(s[Len(s)], Sort(SubSeq(s, 1, Len(s) - 1)))

LatestBooking(tb, patientId) ==
    Sort(SelectSeq(tb, LAMBDA b : b.patientId = patientId))[1]

LastMessageFor(status) ==
    IF status = "completed"
    THEN "Thank you for the session today. I feel much better."
    ELSE IF status = "pending_confirmation"
    THEN "I just booked an appointment. Can you confirm the time?"
    ELSE IF status = "confirmed"
    THEN "See you at our scheduled appointment."
    ELSE "Looking forward to our session."

UnreadCountFor(status) == IF status = "pending_confirmation" THEN 1 ELSE 0

\* the thresholds taken with <= in place of <
PresenceInclusive(hoursAgo) ==
    IF hoursAgo <= OnlineHours THEN "online"
    ELSE IF hoursAgo <= AwayHours THEN "away"
    ELSE "offline"

\* hoursAgo < 2: online, hoursAgo < 24: away, else offline
Presence(hoursAgo) ==
    IF hoursAgo < OnlineHours THEN "online"
    ELSE IF hoursAgo < AwayHours THEN "away"
    ELSE "offline"

SeedMessages(patientId, u, lastMessage, unreadCount, t) ==
    << [id |-> <<patientId, 1>>, senderId |-> patientId,
        content |-> "I wanted to follow up on our session.",
        timestamp |-> t - Seed1Hours, read |-> TRUE],
       [id |-> <<patientId, 2>>,
        senderId |-> IF u.id # Absent THEN u.id ELSE "therapist",
        content |-> "I'm glad you reached out. How are you feeling today?",
        timestamp |-> t - Seed2Hours, read |-> TRUE],
       [id |-> <<patientId, 3>>, senderId |-> patientId,
        content |-> lastMessage,
        timestamp |-> t - Seed3Hours, read |-> (unreadCount = 0)] >>

Conversation(patientId, tb, u, t) ==
    LET latestBooking == LatestBooking(tb, patientId)
        lastMessage == LastMessageFor(latestBooking.status)
        unreadCount == UnreadCountFor(latestBooking.status)
    IN  [id |-> patientId,
         patientId |-> patientId,
         lastMessage |-> lastMessage,
         lastMessageTime |-> t - Seed3Hours,
         unreadCount |-> unreadCount,
         status |-> Presence(t - ReferenceTime(latestBooking)),
         messages |-> SeedMessages(patientId, u, lastMessage, unreadCount, t)]

\* a map that is never asked: every booking makes a conversation
MapHasNever(patientMap, patientId) == FALSE

\* patientMap.has(patientId)
MapHas(patientMap, patientId) ==
    \E i \in 1..Len(patientMap) : patientMap[i].id = patientId

\* therapistBookings.forEach(...), the Map kept in insertion order
RECURSIVE ForEachBooking(_, _, _, _, _)
ForEachBooking(i, tb, patientMap, u, t) ==
    IF i > Len(tb) THEN patientMap
    ELSE ForEachBooking(i + 1, tb,
            IF MapHas(patientMap, tb[i].patientId)
            THEN patientMap
            ELSE Append(patientMap, Conversation(tb[i].patientId, tb, u, t)),
            u, t)

\* Array.from(patientMap.values())
Derive(braw, u, t) ==
    ForEachBooking(1, TherapistBookings(ReadStore(braw).items, u), <<>>, u, t)

IdSet(convs) == {convs[i].id : i \in 1..Len(convs)}

\* a merge that keeps the conversations the new derivation lacks
SetConversationsKeepingOld(old, new) ==
    new \o SelectSeq(old, LAMBDA c : c.id \notin IdSet(new))

\* setConversations(next): the state is replaced
SetConversations(old, new) == new

----------------------------------------------------------------------------
(* The data the specifications draw from *)

Texts == {<<>>, <<" ">>, <<"h", " ">>}
SearchTerms == {"", "session"}

BookingA1 == Booking("p1", "Dr A", "t1", "pending_confirmation", <<0>>, 0)
BookingA2 == Booking("p2", "Dr A", "t1", "completed", <<>>, 0)
BookingB1 == Booking("p1", "Dr B", "t2", "confirmed", <<0>>, 0)

LifecycleUsers == {DrA, DrB}
LifecycleStores ==
    {Missing, Unparsable, NonList,
     List(<<BookingA1>>), List(<<BookingA1, BookingA2>>),
     List(<<BookingB1, BookingA2>>), List(<<BookingA1, NullRecord>>)}
UsersStores == {List(<<>>), Unparsable, NonList}

----------------------------------------------------------------------------
(* The effect of lines 41-155 and its callbacks *)

NoEffect == [handle |-> 0, user |-> NoUser]

Handles(ts, sl, ul) == {t.handle : t \in ts \cup sl \cup ul}

\* the id setInterval returns and the identity of the handleStorageChange
\* closure: one that no live registration uses
FreeHandle(ts, sl, ul) ==
    CHOOSE h \in (1..MaxHandles) \ Handles(ts, sl, ul) :
        \A k \in (1..MaxHandles) \ Handles(ts, sl, ul) : h <= k

\* a cleanup without line 151
ClearIntervalForgotten(ts, e) == ts

\* clearInterval(interval), line 151
ClearInterval(ts, e) == {t \in ts : t.handle # e.handle}

\* window.removeEventListener(..., handleStorageChange), lines 152-153
RemoveEventListener(ls, e) == {l \in ls : l.handle # e.handle}

\* a refresh that also drops a selection it no longer finds
LoadConversationsDeselecting(u, okOp, throwOp) ==
    IF LoadThrows(bookingsRaw, usersRaw, u)
    THEN /\ lastOp' = throwOp
         /\ UNCHANGED <<conversations, selectedConversation, messageText, searchTerm>>
    ELSE /\ conversations' =
                SetConversations(conversations, Derive(bookingsRaw, u, now))
         /\ selectedConversation' =
                IF selectedConversation \in IdSet(Derive(bookingsRaw, u, now))
                THEN selectedConversation ELSE NoSelection
         /\ lastOp' = okOp
         /\ UNCHANGED <<messageText, searchTerm>>

\* one call of loadConversations, lines 43-135, by the closure that holds u
LoadConversations(u, okOp, throwOp) ==
    IF LoadThrows(bookingsRaw, usersRaw, u)
    THEN /\ lastOp' = throwOp
         /\ UNCHANGED <<conversations, selectedConversation, messageText, searchTerm>>
    ELSE /\ conversations' =
                SetConversations(conversations, Derive(bookingsRaw, u, now))
         /\ lastOp' = okOp
         /\ UNCHANGED <<selectedConversation, messageText, searchTerm>>

\* the effect body, lines 137-148, run with the registrations ts, sl, ul in
\* place.  An exception of line 137 leaves the body before line 140 and is
\* uncaught: React unmounts the component.
EffectBody(u, ts, sl, ul, okOp, throwOp) ==
    /\ (1..MaxHandles) \ Handles(ts, sl, ul) # {}
    /\ LoadConversations(u, okOp, throwOp)
    /\ IF LoadThrows(bookingsRaw, usersRaw, u)
       THEN /\ phase' = "unmounted"
            /\ effect' = NoEffect
            /\ timers' = ts
            /\ storageListeners' = sl
            /\ updatedListeners' = ul
            /\ shownIds' = {}
       ELSE LET registration == [handle |-> FreeHandle(ts, sl, ul), user |-> u]
            IN  /\ phase' = "active"
                /\ effect' = registration
                /\ timers' = ts \cup {registration}
                /\ storageListeners' = sl \cup {registration}
                /\ updatedListeners' = ul \cup {registration}
                /\ UNCHANGED shownIds

\* the effect runs after the first commit
RunEffect ==
    /\ phase = "rendered"
    /\ EffectBody(user, timers, storageListeners, updatedListeners,
                  "effect_ok", "effect_throw")
    /\ UNCHANGED <<user, bookingsRaw, usersRaw, now>>

\* [user] changes: the cleanup of lines 150-154, then the effect body again
ChangeUser ==
    /\ phase = "active"
    /\ \E u \in LifecycleUsers :
         /\ u # user
         /\ user' = u
         /\ EffectBody(u, ClearInterval(timers, effect),
                       RemoveEventListener(storageListeners, effect),
                       RemoveEventListener(updatedListeners, effect),
                       "rerun_ok", "rerun_throw")
    /\ UNCHANGED <<bookingsRaw, usersRaw, now>>

\* the interval of line 140 fires
TimerTick ==
    /\ \E t \in timers : LoadConversations(t.user, "tick_ok", "tick_throw")
    /\ UNCHANGED <<user, bookingsRaw, usersRaw, now, phase, effect, timers,
                   storageListeners, updatedListeners, shownIds>>

\* handleStorageChange, lines 143-145, called for a 'storage' event
StorageEvent ==
    /\ \E l \in storageListeners :
            LoadConversations(l.user, "event_ok", "event_throw")
    /\ UNCHANGED <<user, bookingsRaw, usersRaw, now, phase, effect, timers,
                   storageListeners, updatedListeners, shownIds>>

\* handleStorageChange called for a 'mindcare-data-updated' event
DataUpdatedEvent ==
    /\ \E l \in updatedListeners :
            LoadConversations(l.user, "event_ok", "event_throw")
    /\ UNCHANGED <<user, bookingsRaw, usersRaw, now, phase, effect, timers,
                   storageListeners, updatedListeners, shownIds>>

\* the component unmounts: the cleanup of lines 150-154
Unmount ==
    /\ phase = "active"
    /\ phase' = "unmounted"
    /\ timers' = ClearInterval(timers, effect)
    /\ storageListeners' = RemoveEventListener(storageListeners, effect)
    /\ updatedListeners' = RemoveEventListener(updatedListeners, effect)
    /\ effect' = NoEffect
    /\ shownIds' = {}
    /\ lastOp' = "teardown"
    /\ UNCHANGED <<user, bookingsRaw, usersRaw, now, conversations,
                   selectedConversation, messageText, searchTerm>>

\* a new instance of the component: the useState initial values, lines 36-39
Mount ==
    /\ phase = "unmounted"
    /\ phase' = "rendered"
    /\ \E u \in LifecycleUsers : user' = u
    /\ conversations' = <<>>
    /\ selectedConversation' = NoSelection
    /\ messageText' = <<>>
    /\ searchTerm' = ""
    /\ lastOp' = "mount"
    /\ UNCHANGED <<bookingsRaw, usersRaw, now, effect, timers, storageListeners,
                   updatedListeners, shownIds>>

----------------------------------------------------------------------------
(* The view, lines 177-430 *)

\* React commits the render that setConversations scheduled
Commit ==
    /\ phase = "active"
    /\ shownIds # IdSet(conversations)
    /\ shownIds' = IdSet(conversations)
    /\ lastOp' = "commit"
    /\ UNCHANGED <<user, bookingsRaw, usersRaw, now, conversations,
                   selectedConversation, messageText, searchTerm, phase, effect,
                   timers, storageListeners, updatedListeners>>

\* selectedConv ? ( header, messages, composer ) : placeholder, lines 177, 281
ComposerShown == selectedConversation \in shownIds

\* onClick of a list entry, line 230 (the search filter of lines 186-189 is
\* not modelled: every conversation of the committed render can be clicked)
SelectConversation ==
    /\ phase = "active"
    /\ \E id \in shownIds : selectedConversation' = id
    /\ lastOp' = "select"
    /\ UNCHANGED <<user, bookingsRaw, usersRaw, now, conversations, messageText,
                   searchTerm, phase, effect, timers, storageListeners,
                   updatedListeners, shownIds>>

\* onChange of the search box, line 214
SetSearchTerm ==
    /\ phase = "active"
    /\ \E s \in SearchTerms : searchTerm' = s
    /\ lastOp' = "search"
    /\ UNCHANGED <<user, bookingsRaw, usersRaw, now, conversations,
                   selectedConversation, messageText, phase, effect, timers,
                   storageListeners, updatedListeners, shownIds>>

\* onChange of the composer's input, line 378
TypeMessage ==
    /\ phase = "active"
    /\ ComposerShown
    /\ \E t \in Texts : messageText' = t
    /\ lastOp' = "type"
    /\ UNCHANGED <<user, bookingsRaw, usersRaw, now, conversations,
                   selectedConversation, searchTerm, phase, effect, timers,
                   storageListeners, updatedListeners, shownIds>>

\* String.prototype.trim
RECURSIVE TrimStart(_)
TrimStart(s) == IF s # <<>> /\ Head(s) = " " THEN TrimStart(Tail(s)) ELSE s
RECURSIVE TrimEnd(_)
TrimEnd(s) ==
    IF s # <<>> /\ s[Len(s)] = " " THEN TrimEnd(SubSeq(s, 1, Len(s) - 1)) ELSE s
Trim(s) == TrimEnd(TrimStart(s))

\* handleSendMessage, lines 179-184, from Enter in the input or the button
HandleSendMessage ==
    /\ phase = "active"
    /\ ComposerShown
    /\ IF Trim(messageText) = <<>> \/ selectedConversation = NoSelection
       THEN /\ lastOp' = "send_return"
            /\ UNCHANGED messageText
       ELSE /\ messageText' = <<>>
            /\ lastOp' = "send"
    /\ UNCHANGED <<user, bookingsRaw, usersRaw, now, conversations,
                   selectedConversation, searchTerm, phase, effect, timers,
                   storageListeners, updatedListeners, shownIds>>

----------------------------------------------------------------------------
(* The environment *)

\* another part of the application, or another tab, writes the bookings
WriteBookings ==
    /\ \E raw \in LifecycleStores : bookingsRaw' = raw
    /\ lastOp' = "write"
    /\ UNCHANGED <<user, usersRaw, now, conversations, selectedConversation,
                   messageText, searchTerm, phase, effect, timers,
                   storageListeners, updatedListeners, shownIds>>

WriteUsers ==
    /\ \E raw \in UsersStores : usersRaw' = raw
    /\ lastOp' = "write"
    /\ UNCHANGED <<user, bookingsRaw, now, conversations, selectedConversation,
                   messageText, searchTerm, phase, effect, timers,
                   storageListeners, updatedListeners, shownIds>>

AdvanceClock ==
    /\ now < MaxClock
    /\ now' = now + 1
    /\ lastOp' = "clock"
    /\ UNCHANGED <<user, bookingsRaw, usersRaw, conversations,
                   selectedConversation, messageText, searchTerm, phase, effect,
                   timers, storageListeners, updatedListeners, shownIds>>

----------------------------------------------------------------------------
(* The component with its environment *)

InitComponent ==
    /\ conversations = <<>>
    /\ selectedConversation = NoSelection
    /\ messageText = <<>>
    /\ searchTerm = ""
    /\ phase = "rendered"
    /\ effect = NoEffect
    /\ timers = {}
    /\ storageListeners = {}
    /\ updatedListeners = {}
    /\ shownIds = {}
    /\ lastOp = "mount"

Init ==
    /\ user \in LifecycleUsers
    /\ bookingsRaw \in LifecycleStores
    /\ usersRaw \in UsersStores
    /\ now = 0
    /\ InitComponent

Next ==
    \/ RunEffect
    \/ ChangeUser
    \/ TimerTick
    \/ StorageEvent
    \/ DataUpdatedEvent
    \/ Unmount
    \/ Mount
    \/ Commit
    \/ SelectConversation
    \/ SetSearchTerm
    \/ TypeMessage
    \/ HandleSendMessage
    \/ WriteBookings
    \/ WriteUsers
    \/ AdvanceClock

Spec == Init /\ [][Next]_vars

----------------------------------------------------------------------------
(* The derivation alone: the stores and the clock are drawn once, the      *)
(* effect runs and its callbacks fire over the unchanged stores.           *)

Patients == {"p1", "p2"}
DeriveUsers == {NoUser, DrA, DrB}

NextDerive ==
    \/ RunEffect
    \/ TimerTick
    \/ StorageEvent
    \/ DataUpdatedEvent

\* bookings that differ in whom they name
MatchBookings ==
    {Booking(p, tn, tid, "confirmed", <<0>>, 0) :
        p \in Patients, tn \in {Absent, "Dr A", "Dr B"},
        tid \in {Absent, "t1"}}

InitMatch ==
    /\ user \in DeriveUsers
    /\ bookingsRaw \in {List(s) : s \in SeqsUpTo(MatchBookings, MaxBookings)}
    /\ usersRaw = List(<<>>)
    /\ now = 0
    /\ InitComponent

SpecMatch == InitMatch /\ [][NextDerive]_vars

\* bookings of Dr A that differ in status and times, and later ones of Dr B
Statuses == {"completed", "pending_confirmation", "confirmed", "cancelled"}
TimeFields ==
    {[createdAt |-> <<>>, date |-> 0], [createdAt |-> <<>>, date |-> 1],
     [createdAt |-> <<0>>, date |-> 1], [createdAt |-> <<1>>, date |-> 0]}
LatestBookings ==
    {Booking(p, "Dr A", "t1", st, tf.createdAt, tf.date) :
        p \in Patients, st \in Statuses, tf \in TimeFields}
    \cup {Booking(p, "Dr B", "t2", "completed", <<2>>, 2) : p \in Patients}

InitLatest ==
    /\ user = DrA
    /\ bookingsRaw \in {List(s) : s \in SeqsUpTo(LatestBookings, MaxLatest)}
    /\ usersRaw = List(<<>>)
    /\ now = 2
    /\ InitComponent

SpecLatest == InitLatest /\ [][NextDerive]_vars

\* bookings of Dr A made at hour 0 or hour 22, read at any hour up to MaxNow
PresenceBookings ==
    {Booking(p, "Dr A", "t1", "confirmed", tf.createdAt, tf.date) :
        p \in Patients,
        tf \in {[createdAt |-> <<0>>, date |-> 22],
                [createdAt |-> <<>>, date |-> 22],
                [createdAt |-> <<22>>, date |-> 0]}}
    \cup {Booking("p1", "Dr B", "t2", "confirmed", <<23>>, 23)}

InitPresence ==
    /\ user = DrA
    /\ bookingsRaw \in {List(s) : s \in SeqsUpTo(PresenceBookings, MaxPresence)}
    /\ usersRaw = List(<<>>)
    /\ now \in 0..MaxNow
    /\ InitComponent

SpecPresence == InitPresence /\ [][NextDerive]_vars

----------------------------------------------------------------------------
(* What the properties speak of, stated apart from the operators above *)

RefreshedOps == {"effect_ok", "rerun_ok", "tick_ok", "event_ok"}
AbandonedOps == {"effect_throw", "rerun_throw", "tick_throw", "event_throw"}

StoredBookings == ReadStore(bookingsRaw).items

\* the stored bookings whose therapistName or therapistId equals the user's
MatchingIndexes ==
    {i \in 1..Len(StoredBookings) :
        \/ StoredBookings[i].therapistName = user.name
        \/ StoredBookings[i].therapistId = user.id}

MatchingPatients == {StoredBookings[i].patientId : i \in MatchingIndexes}

RefTime(i) ==
    IF StoredBookings[i].createdAt = <<>>
    THEN StoredBookings[i].date
    ELSE StoredBookings[i].createdAt[1]

GroupOf(patientId) ==
    {i \in MatchingIndexes : StoredBookings[i].patientId = patientId}

\* the booking of greatest reference time, the earliest of these in the list
LatestIndex(patientId) ==
    CHOOSE i \in GroupOf(patientId) :
        \A j \in GroupOf(patientId) :
            \/ RefTime(j) < RefTime(i)
            \/ RefTime(j) = RefTime(i) /\ i <= j

----------------------------------------------------------------------------
(* C1: after a derivation pass there is exactly one conversation for each  *)
(* distinct patientId among the bookings that match the provider: as many  *)
(* conversations as such patientIds, each id one of them, no id twice.     *)
C1_OneConversationPerPatient ==
    lastOp \in RefreshedOps =>
        /\ Len(conversations) = Cardinality(MatchingPatients)
        /\ \A i \in 1..Len(conversations) :
                conversations[i].id \in MatchingPatients
        /\ \A i, j \in 1..Len(conversations) :
                i # j => conversations[i].id # conversations[j].id

C1_Witness ==
    /\ lastOp \in RefreshedOps
    /\ Cardinality(MatchingIndexes) = 3
    /\ Len(conversations) = 2

(* C9: every conversation's id is the patientId of a booking that names    *)
(* the current provider, by a therapistName or therapistId that is present *)
(* and is the provider's; this also with no user and with bookings that    *)
(* lack either field.                                                      *)
C9_OnlyPatientsOfProvider ==
    \A i \in 1..Len(conversations) :
        \E j \in 1..Len(StoredBookings) :
            /\ StoredBookings[j].patientId = conversations[i].id
            /\ \/ /\ StoredBookings[j].therapistName # Absent
                  /\ StoredBookings[j].therapistName = user.name
               \/ /\ StoredBookings[j].therapistId # Absent
                  /\ StoredBookings[j].therapistId = user.id

(* C6: a conversation's lastMessage and unreadCount follow the status of   *)
(* the patient's latest matching booking (greatest createdAt-else-date,    *)
(* ties to the earliest in the list), and the third seed message carries   *)
(* that text and is read exactly when unreadCount is 0.                    *)
C6_LatestBookingDecides ==
    lastOp \in RefreshedOps =>
        \A k \in 1..Len(conversations) :
            LET c == conversations[k]
                st == StoredBookings[LatestIndex(c.id)].status
            IN  /\ st = "completed" =>
                     /\ c.lastMessage = "Thank you for the session today. I feel much better."
                     /\ c.unreadCount = 0
                /\ st = "pending_confirmation" =>
                     /\ c.lastMessage = "I just booked an appointment. Can you confirm the time?"
                     /\ c.unreadCount = 1
                /\ st = "confirmed" =>
                     /\ c.lastMessage = "See you at our scheduled appointment."
                     /\ c.unreadCount = 0
                /\ st \notin {"completed", "pending_confirmation", "confirmed"} =>
                     /\ c.lastMessage = "Looking forward to our session."
                     /\ c.unreadCount = 0
                /\ c.messages[3].content = c.lastMessage
                /\ c.messages[3].read = (c.unreadCount = 0)

\* two matching bookings of one patient, equal in reference time through
\* different fields, different in status; a pending one is the latest
C6_Witness ==
    /\ lastOp \in RefreshedOps
    /\ \E k \in 1..Len(conversations) :
          /\ \E i, j \in GroupOf(conversations[k].id) :
                /\ i < j
                /\ RefTime(i) = RefTime(j)
                /\ StoredBookings[i].createdAt # StoredBookings[j].createdAt
                /\ StoredBookings[i].status = "pending_confirmation"
                /\ StoredBookings[j].status = "completed"
          /\ conversations[k].unreadCount = 1
          /\ conversations[k].messages[3].read = FALSE

(* C7: a conversation's status follows the hours elapsed from the latest   *)
(* booking's reference time to now: online in [0, 2), away in [2, 24),     *)
(* offline from 24 on.                                                     *)
C7_PresenceByElapsed ==
    lastOp \in RefreshedOps =>
        \A k \in 1..Len(conversations) :
            LET elapsed == now - RefTime(LatestIndex(conversations[k].id))
                status == conversations[k].status
            IN  /\ (0 <= elapsed /\ elapsed < OnlineHours) => status = "online"
                /\ (OnlineHours <= elapsed /\ elapsed < AwayHours) => status = "away"
                /\ AwayHours <= elapsed => status = "offline"

\* one conversation exactly 2 h old and away, another exactly 24 h old and offline
C7_Witness ==
    /\ lastOp \in RefreshedOps
    /\ \E k, m \in 1..Len(conversations) :
          /\ now - RefTime(LatestIndex(conversations[k].id)) = OnlineHours
          /\ conversations[k].status = "away"
          /\ now - RefTime(LatestIndex(conversations[m].id)) = AwayHours
          /\ conversations[m].status = "offline"

----------------------------------------------------------------------------
(* C2: a send with text that is not blank and a selected id that resolves  *)
(* appends one message, sent by the user and read, to that conversation    *)
(* and makes it the conversation's lastMessage.                            *)
C2_SendAppends ==
    [][(/\ lastOp' \in {"send", "send_return"}
        /\ Trim(messageText) # <<>>
        /\ selectedConversation \in IdSet(conversations))
       => \E i \in 1..Len(conversations) :
            /\ conversations[i].id = selectedConversation
            /\ i <= Len(conversations')
            /\ Len(conversations'[i].messages) = Len(conversations[i].messages) + 1
            /\ LET sent == conversations'[i].messages[Len(conversations'[i].messages)]
               IN  /\ sent.senderId = user.id
                   /\ sent.read = TRUE
                   /\ conversations'[i].lastMessage = sent.content]_vars

(* C3: a refresh attempt that fails on the stores leaves the conversations *)
(* as they were, and leaves the timer and both listeners registered.       *)
C3_FailedRefreshKeepsTriggers ==
    [][lastOp' \in AbandonedOps =>
        /\ conversations' = conversations
        /\ timers' # {}
        /\ storageListeners' # {}
        /\ updatedListeners' # {}]_vars

(* C4: the timer and the two listeners that exist are exactly those of the *)
(* running activation; after a teardown none is left, so nothing of a torn *)
(* down activation can refresh.                                            *)
C4_TriggersPaired ==
    /\ phase = "active" =>
         /\ effect.user = user
         /\ timers = {effect}
         /\ storageListeners = {effect}
         /\ updatedListeners = {effect}
    /\ phase # "active" =>
         /\ timers = {}
         /\ storageListeners = {}
         /\ updatedListeners = {}

\* an identity change tore one activation down and started the next
C4_Witness ==
    /\ lastOp = "rerun_ok"
    /\ timers = {effect}
    /\ conversations # <<>>

(* C5: after a successful refresh the conversations are those of the       *)
(* stores just read and nothing else: their ids are the matching patients, *)
(* once each, and every one is freshly derived.                            *)
C5_RefreshReplaces ==
    lastOp \in RefreshedOps =>
        /\ IdSet(conversations) = MatchingPatients
        /\ Len(conversations) = Cardinality(MatchingPatients)
        /\ \A i \in 1..Len(conversations) :
              /\ conversations[i].lastMessageTime = now - Seed3Hours
              /\ Len(conversations[i].messages) = 3

\* a tick's refresh removed the conversation that was selected
C5_Witness ==
    /\ lastOp = "tick_ok"
    /\ selectedConversation # NoSelection
    /\ selectedConversation \notin IdSet(conversations)
    /\ conversations # <<>>

(* C8: a send whose selected id resolves to no conversation changes        *)
(* nothing: the conversations, the selection and the draft stay.           *)
C8_SendUnknownChangesNothing ==
    [][(/\ lastOp' \in {"send", "send_return"}
        /\ selectedConversation \notin IdSet(conversations))
       => /\ conversations' = conversations
          /\ selectedConversation' = selectedConversation
          /\ messageText' = messageText]_vars

(* C10: a refresh, by whatever trigger and whether it succeeds or is       *)
(* abandoned, leaves the selection, the draft and the search term alone.   *)
C10_RefreshKeepsViewState ==
    [][lastOp' \in RefreshedOps \cup AbandonedOps =>
        /\ selectedConversation' = selectedConversation
        /\ messageText' = messageText
        /\ searchTerm' = searchTerm]_vars

\* an event's refresh removed the selected conversation; draft and search stay
C10_Witness ==
    /\ lastOp = "event_ok"
    /\ selectedConversation # NoSelection
    /\ selectedConversation \notin IdSet(conversations)
    /\ Trim(messageText) # <<>>
    /\ searchTerm # ""

=============================================================================
